---- MODULE Spec2Model ----
(***************************************************************************)
(* CI Guard extension (shared/extensions/ci-guard.ts): the gate state      *)
(* (lastCiPassed), the lazily resolved setup (hasSelfci, vcs, trunkBranch) *)
(* and the four event handlers (three tool_result handlers, the tool_call  *)
(* push guard, the agent_end reminder).                                    *)
(*                                                                         *)
(* Text is modelled as a sequence of one-character strings, so that the    *)
(* regular expressions of the handlers are evaluated on the literal        *)
(* command text as the code evaluates them.  A null of the source is the   *)
(* string "null"; the boolean-or-null hasSelfci is "null"/"true"/"false".  *)
(*                                                                         *)
(* Every action is one event delivered by the host and handled to the end  *)
(* (the host delivers the events one after the other).  Spec runs every    *)
(* tool event in a few working directories, SpecSetup runs a few tool      *)
(* events in every working directory of Envs.                              *)
(***************************************************************************)
EXTENDS Naturals, Sequences, FiniteSets, TLC

\* ------------------------------------------------------------------ text

\* \s of a JavaScript regular expression, on the characters the inputs use.
IsWs(c) == c \in {" ", "\t", "\n"}

\* The literal w occurs in s at position i.
LitAt(s, i, w) ==
  /\ i >= 1
  /\ i + Len(w) - 1 <= Len(s)
  /\ \A k \in 1..Len(w) : s[i + k - 1] = w[k]

\* \s+ followed by the literal w, the whitespace starting at position i.
WsThen(s, i, w) ==
  \E j \in (i + 1)..Len(s) :
    /\ \A k \in i..(j - 1) : IsWs(s[k])
    /\ LitAt(s, j, w)

\* String.prototype.startsWith
StartsWith(s, w) == LitAt(s, 1, w)

W_jj == <<"j","j">>
W_git == <<"g","i","t">>
W_push == <<"p","u","s","h">>
W_selfci == <<"s","e","l","f","c","i">>
W_check == <<"c","h","e","c","k">>

\* (commit|squash|rebase|new|edit|describe|abandon)
JjMutatingVerbs == {
  <<"c","o","m","m","i","t">>,
  <<"s","q","u","a","s","h">>,
  <<"r","e","b","a","s","e">>,
  <<"n","e","w">>,
  <<"e","d","i","t">>,
  <<"d","e","s","c","r","i","b","e">>,
  <<"a","b","a","n","d","o","n">> }

\* (commit|rebase|merge|cherry-pick|reset|revert)
GitMutatingVerbs == {
  <<"c","o","m","m","i","t">>,
  <<"r","e","b","a","s","e">>,
  <<"m","e","r","g","e">>,
  <<"c","h","e","r","r","y","-","p","i","c","k">>,
  <<"r","e","s","e","t">>,
  <<"r","e","v","e","r","t">> }

\* /selfci\s+check/.test(command)
IsValidation(command) ==
  \E i \in 1..Len(command) :
    LitAt(command, i, W_selfci) /\ WsThen(command, i + Len(W_selfci), W_check)

\* /jj\s+(commit|squash|rebase|new|edit|describe|abandon)/.test(command)
IsJjMutation(command) ==
  \E i \in 1..Len(command) : \E verb \in JjMutatingVerbs :
    LitAt(command, i, W_jj) /\ WsThen(command, i + Len(W_jj), verb)

\* /git\s+(commit|rebase|merge|cherry-pick|reset|revert)/.test(command)
IsGitMutation(command) ==
  \E i \in 1..Len(command) : \E verb \in GitMutatingVerbs :
    LitAt(command, i, W_git) /\ WsThen(command, i + Len(W_git), verb)

\* Every command that names git taken for a push.
IsGitPush_AnyGit(command) ==
  \E i \in 1..Len(command) : LitAt(command, i, W_git)

\* /git\s+push/.test(command)
IsGitPush(command) ==
  \E i \in 1..Len(command) :
    LitAt(command, i, W_git) /\ WsThen(command, i + Len(W_git), W_push)

\* /jj\s+git\s+push/.test(command)
IsJjGitPush(command) ==
  \E i \in 1..Len(command) : \E j \in 1..Len(command) :
    /\ LitAt(command, i, W_jj)
    /\ j > i + Len(W_jj)
    /\ \A k \in (i + Len(W_jj))..(j - 1) : IsWs(command[k])
    /\ LitAt(command, j, W_git)
    /\ WsThen(command, j + Len(W_git), W_push)

\* const isPush = /jj\s+git\s+push/.test(command) || /git\s+push/.test(command)
IsPush(command) == IsJjGitPush(command) \/ IsGitPush(command)

\* ---------------------------------------------------------------- inputs

C_jjGitPush == <<"j","j"," ","g","i","t"," ","p","u","s","h">>
C_gitPush == <<"g","i","t"," ","p","u","s","h">>
C_selfciCheck == <<"s","e","l","f","c","i"," ","c","h","e","c","k">>
C_jjDescribe == <<"j","j"," "," ","d","e","s","c","r","i","b","e">>
C_gitCommit == <<"g","i","t"," ","c","o","m","m","i","t">>
C_sedInPlace == <<"s","e","d"," ","-","i"," ","s","/","a","/","b","/"," ","f">>
C_jjLog == <<"j","j"," ","l","o","g">>
C_jjCommit == <<"j","j"," ","c","o","m","m","i","t">>
C_jjSquash == <<"j","j"," ","s","q","u","a","s","h">>
C_jjRebase == <<"j","j"," ","r","e","b","a","s","e">>
C_jjNew == <<"j","j"," ","n","e","w">>
C_jjEdit == <<"j","j"," ","e","d","i","t">>
C_jjAbandon == <<"j","j"," ","a","b","a","n","d","o","n">>
C_gitRebase == <<"g","i","t"," ","r","e","b","a","s","e">>
C_gitMerge == <<"g","i","t"," ","m","e","r","g","e">>
C_gitCherryPick == <<"g","i","t"," ","c","h","e","r","r","y","-","p","i","c","k">>
C_gitReset == <<"g","i","t"," ","r","e","s","e","t">>
C_gitRevert == <<"g","i","t"," ","r","e","v","e","r","t">>
C_checkThenCommit ==
  <<"s","e","l","f","c","i"," ","c","h","e","c","k"," ","&","&"," ",
    "g","i","t"," ","c","o","m","m","i","t">>

\* The history-mutating commands of the two version-control systems that the
\* reset handler names, one text per verb, and a command line that validates
\* and then commits.
MutatingCommands ==
  { C_jjDescribe, C_gitCommit, C_checkThenCommit,
    C_jjCommit, C_jjSquash, C_jjRebase, C_jjNew, C_jjEdit, C_jjAbandon,
    C_gitRebase, C_gitMerge, C_gitCherryPick, C_gitReset, C_gitRevert }

\* The command texts the Bash tool is invoked with.
Commands ==
  { C_jjGitPush, C_gitPush, C_selfciCheck, C_sedInPlace, C_jjLog }
  \cup MutatingCommands

\* event.input.command ?? "" of a tool other than Bash
NoCommand == <<>>

ToolNames == {"Bash", "Edit", "Write", "Read"}

\* event.details of a tool_result: undefined, or an object with an exitCode.
ResultDetails ==
  { [defined |-> TRUE, exitCode |-> 0],
    [defined |-> TRUE, exitCode |-> 1],
    [defined |-> FALSE, exitCode |-> 0] }

NoDetails == [defined |-> FALSE, exitCode |-> 0]

\* The regular expressions of the handlers on each command text.
CommandClass ==
  [ c \in Commands \cup {NoCommand} |->
      [ validation |-> IsValidation(c),
        jjMutation |-> IsJjMutation(c),
        gitMutation |-> IsGitMutation(c),
        push |-> IsPush(c) ] ]

\* What the commands do to the repository, whether or not the tracker
\* recognises them: the commands after which the next push would contain
\* something else (sed -i edits a file as the Edit tool does).
ChangesPushContent(toolName, command) ==
  \/ toolName \in {"Edit", "Write"}
  \/ /\ toolName = "Bash"
     /\ command \in MutatingCommands \cup {C_sedInPlace}

\* ----------------------------------------------------------- environment

\* for (const name of ["main", "master", "trunk"])
TrunkNames == <<"main", "master", "trunk">>

TrunkChars ==
  [ main |-> <<"m","a","i","n">>,
    master |-> <<"m","a","s","t","e","r">>,
    trunk |-> <<"t","r","u","n","k">> ]

L_main == <<"m","a","i","n",":"," ","a">>
L_master == <<"m","a","s","t","e","r",":"," ","b">>
L_trunk == <<"t","r","u","n","k",":"," ","c">>
L_mainline == <<"m","a","i","n","l","i","n","e",":"," ","d">>

\* Results of jj bookmark list --no-pager: exit code and the lines of stdout
\* (stdout.split("\n")).
BookmarkOutputs ==
  { [code |-> 1, stdout |-> <<L_main>>],
    [code |-> 0, stdout |-> <<L_mainline>>],
    [code |-> 0, stdout |-> <<L_main>>],
    [code |-> 0, stdout |-> <<L_trunk, L_master>>] }

\* The sets of names that git rev-parse --verify resolves.
GitRefSets == { {}, {"main"}, {"trunk"}, {"master", "trunk"} }

\* The state of the working directory that the setup probes read: the config
\* marker file, the two metadata directories, the bookmark listing of jj and
\* the refs git resolves.  jj and git also work below the repository root, so
\* the listings do not depend on the directories of the current directory.
Envs ==
  [ marker : BOOLEAN, dotJj : BOOLEAN, dotGit : BOOLEAN,
    bookmarks : BookmarkOutputs,
    gitRefs : GitRefSets ]

P_marker == "test -f .config/selfci/ci.yaml"
P_dotJj == "test -d .jj"
P_dotGit == "test -d .git"
P_bookmarks == "jj bookmark list --no-pager"
P_revParse == [ main |-> "git rev-parse --verify main",
                master |-> "git rev-parse --verify master",
                trunk |-> "git rev-parse --verify trunk" ]

SetupProbes ==
  { P_marker, P_dotJj, P_dotGit, P_bookmarks,
    P_revParse.main, P_revParse.master, P_revParse.trunk }

\* pi.exec of a setup probe in the working directory e: {code, stdout}.
Exec(e, probe) ==
  CASE probe = P_marker -> [code |-> IF e.marker THEN 0 ELSE 1, stdout |-> <<>>]
    [] probe = P_dotJj -> [code |-> IF e.dotJj THEN 0 ELSE 1, stdout |-> <<>>]
    [] probe = P_dotGit -> [code |-> IF e.dotGit THEN 0 ELSE 1, stdout |-> <<>>]
    [] probe = P_bookmarks -> e.bookmarks
    [] OTHER ->
         [code |-> IF \E n \in e.gitRefs : probe = P_revParse[n] THEN 0 ELSE 1,
          stdout |-> <<>>]

Min(S) == CHOOSE x \in S : \A y \in S : x <= y

\* ------------------------------------------------------------ detectSetup

\* The marker probe repeated until it succeeds (a false result not cached).
ResolveSelfci_RetriesAbsent(h, e) ==
  IF h # "true"
    THEN [value |-> IF Exec(e, P_marker).code = 0 THEN "true" ELSE "false",
          execs |-> <<P_marker>>]
    ELSE [value |-> h, execs |-> <<>>]

\* The marker probe run by every call, nothing cached.
ResolveSelfci_ProbesEveryCall(h, e) ==
  [value |-> IF Exec(e, P_marker).code = 0 THEN "true" ELSE "false",
   execs |-> <<P_marker>>]

\* if (hasSelfci === null) { hasSelfci = (await pi.exec("test", ...)).code === 0 }
ResolveSelfci(h, e) ==
  IF h = "null"
    THEN [value |-> IF Exec(e, P_marker).code = 0 THEN "true" ELSE "false",
          execs |-> <<P_marker>>]
    ELSE [value |-> h, execs |-> <<>>]

\* The two probes in the other order: git first, jj only if git is absent.
ResolveVcs_GitFirst(v, e) ==
  IF v = "null"
    THEN IF Exec(e, P_dotGit).code = 0
           THEN [value |-> "git", execs |-> <<P_dotGit>>]
           ELSE [value |-> IF Exec(e, P_dotJj).code = 0 THEN "jj" ELSE "null",
                 execs |-> <<P_dotGit, P_dotJj>>]
    ELSE [value |-> v, execs |-> <<>>]

\* if (vcs === null) { jj probe, then the git probe only if the jj one failed }
ResolveVcs(v, e) ==
  IF v = "null"
    THEN IF Exec(e, P_dotJj).code = 0
           THEN [value |-> "jj", execs |-> <<P_dotJj>>]
           ELSE [value |-> IF Exec(e, P_dotGit).code = 0 THEN "git" ELSE "null",
                 execs |-> <<P_dotJj, P_dotGit>>]
    ELSE [value |-> v, execs |-> <<>>]

\* jj: the name of the first line of the listing that is one of main, master,
\* trunk (the order of the listing, not of the names, decides).
JjTrunk_ListingOrder(e) ==
  LET out == Exec(e, P_bookmarks)
      hits == { l \in 1..Len(out.stdout) :
                  \E i \in 1..Len(TrunkNames) :
                    StartsWith(out.stdout[l], TrunkChars[TrunkNames[i]] \o <<":">>) }
      name == CHOOSE n \in { TrunkNames[i] : i \in 1..Len(TrunkNames) } :
                StartsWith(out.stdout[Min(hits)], TrunkChars[n] \o <<":">>)
  IN [value |-> IF out.code = 0 /\ hits # {} THEN name ELSE "null",
      execs |-> <<P_bookmarks>>]

\* jj: the first of main, master, trunk with a line of the listing that starts
\* with "${name}:"; nothing when the listing failed.
JjTrunk(e) ==
  LET out == Exec(e, P_bookmarks)
      hits == { i \in 1..Len(TrunkNames) :
                  \E l \in 1..Len(out.stdout) :
                    StartsWith(out.stdout[l], TrunkChars[TrunkNames[i]] \o <<":">>) }
  IN [value |-> IF out.code = 0 /\ hits # {} THEN TrunkNames[Min(hits)] ELSE "null",
      execs |-> <<P_bookmarks>>]

\* git: main taken as the trunk when none of the three names resolves.
GitTrunk_DefaultsToMain(e) ==
  LET hits == { i \in 1..Len(TrunkNames) :
                  Exec(e, P_revParse[TrunkNames[i]]).code = 0 }
      last == IF hits = {} THEN Len(TrunkNames) ELSE Min(hits)
  IN [value |-> IF hits # {} THEN TrunkNames[Min(hits)] ELSE TrunkNames[1],
      execs |-> [i \in 1..last |-> P_revParse[TrunkNames[i]]]]

\* git: rev-parse --verify of main, master, trunk in turn, up to the first
\* that exits 0.
GitTrunk(e) ==
  LET hits == { i \in 1..Len(TrunkNames) :
                  Exec(e, P_revParse[TrunkNames[i]]).code = 0 }
      last == IF hits = {} THEN Len(TrunkNames) ELSE Min(hits)
  IN [value |-> IF hits # {} THEN TrunkNames[Min(hits)] ELSE "null",
      execs |-> [i \in 1..last |-> P_revParse[TrunkNames[i]]]]

\* if (trunkBranch === null) { if (vcs === "jj") ... else ... }
ResolveTrunk(t, v, e) ==
  IF t = "null"
    THEN IF v = "jj" THEN JjTrunk(e) ELSE GitTrunk(e)
    ELSE [value |-> t, execs |-> <<>>]

\* detectSetup returning true whenever a VCS was found.
SetupResult_WithoutTrunk(t) == TRUE

\* return trunkBranch !== null
SetupResult(t) == t # "null"

\* detectSetup(pi) called with the cached fields h, v, t in the working
\* directory e: the fields after the call, the value returned and the pi.exec
\* calls made, in order.
DetectSetup(h, v, t, e) ==
  LET rs == ResolveSelfci(h, e) IN
  IF rs.value # "true"
    THEN [hasSelfci |-> rs.value, vcs |-> v, trunkBranch |-> t,
          result |-> FALSE, execs |-> rs.execs]
    ELSE
      LET rv == ResolveVcs(v, e) IN
      IF rv.value = "null"
        THEN [hasSelfci |-> rs.value, vcs |-> rv.value, trunkBranch |-> t,
              result |-> FALSE, execs |-> rs.execs \o rv.execs]
        ELSE
          LET rt == ResolveTrunk(t, rv.value, e) IN
          [hasSelfci |-> rs.value, vcs |-> rv.value, trunkBranch |-> rt.value,
           result |-> SetupResult(rt.value),
           execs |-> rs.execs \o rv.execs \o rt.execs]

\* ------------------------------------------------------------- hasChanges

S_modified == <<"M"," ","f">>
S_untracked == <<"?","?"," ","f">>
G_zero == <<"0">>
G_one == <<"1">>
G_two == <<"2">>
G_idA == <<"a">>
G_idB == <<"b">>

\* Results of the status query (jj status --no-pager, git status --porcelain).
StatusOutputs ==
  { [code |-> 1, stdout |-> <<S_modified>>],
    [code |-> 0, stdout |-> <<>>],
    [code |-> 0, stdout |-> <<S_modified>>],
    [code |-> 0, stdout |-> <<S_untracked>>] }

\* Results of the ahead-of-trunk query (jj log ... / git rev-list --count ...).
LogOutputs ==
  { [code |-> 1, stdout |-> <<G_one>>],
    [code |-> 0, stdout |-> <<>>],
    [code |-> 0, stdout |-> <<G_zero>>],
    [code |-> 0, stdout |-> <<G_one>>],
    [code |-> 0, stdout |-> <<G_two>>],
    [code |-> 0, stdout |-> <<G_idA, G_idB>>] }

NonBlank(l) == \E k \in 1..Len(l) : ~IsWs(l[k])

\* /^[AMD] /.test(line)
IsStatusLine(l) == Len(l) >= 2 /\ l[1] \in {"A", "M", "D"} /\ l[2] = " "

\* The count without the filter of empty lines: "".split("\n") is [""].
CountLines_NoFilter(lines) ==
  IF lines = <<>> THEN 1 ELSE Len(lines)

\* stdout.trim().split("\n").filter((l) => l.length > 0).length
CountLines(lines) ==
  LET nb == { i \in 1..Len(lines) : NonBlank(lines[i]) } IN
  IF nb = {} THEN 0
  ELSE Cardinality({ i \in 1..Len(lines) :
         /\ \E j \in nb : j <= i
         /\ \E j \in nb : j >= i
         /\ Len(lines[i]) > 0 })

Digits == <<"0","1","2","3","4","5","6","7","8","9">>

IsDigit(c) == \E d \in 1..Len(Digits) : Digits[d] = c

DigitValue(c) == (CHOOSE d \in 1..Len(Digits) : Digits[d] = c) - 1

RECURSIVE DigitRun(_, _, _)
DigitRun(l, i, acc) ==
  IF i <= Len(l) /\ IsDigit(l[i])
    THEN DigitRun(l, i + 1, acc * 10 + DigitValue(l[i]))
    ELSE acc

\* parseInt(stdout.trim(), 10) || 0 : the leading digits of the first
\* non-blank line, 0 when there are none (NaN || 0).
ParseCount(lines) ==
  LET nb == { i \in 1..Len(lines) : NonBlank(lines[i]) } IN
  IF nb = {} THEN 0
  ELSE LET l == lines[Min(nb)]
           first == Min({ k \in 1..Len(l) : ~IsWs(l[k]) })
       IN DigitRun(l, first, 0)

\* The outputs parsed whatever the exit code of the query.
HasChanges_IgnoresExit(v, t, st, lg) ==
  IF v = "jj"
    THEN [working |-> \E i \in 1..Len(st.stdout) : IsStatusLine(st.stdout[i]),
          commits |-> CountLines(lg.stdout),
          execs |-> <<"jj status --no-pager", "jj log -r " \o t \o "..@- ~ empty()">>]
    ELSE [working |-> \E i \in 1..Len(st.stdout) : NonBlank(st.stdout[i]),
          commits |-> ParseCount(lg.stdout),
          execs |-> <<"git status --porcelain",
                      "git rev-list --count " \o t \o "..HEAD">>]

\* hasChanges(pi) with the resolved vcs v and trunk t, the status query
\* answering st and the ahead-of-trunk query answering lg.
HasChanges(v, t, st, lg) ==
  IF v = "jj"
    THEN [working |-> st.code = 0
                      /\ \E i \in 1..Len(st.stdout) : IsStatusLine(st.stdout[i]),
          commits |-> IF lg.code = 0 THEN CountLines(lg.stdout) ELSE 0,
          execs |-> <<"jj status --no-pager", "jj log -r " \o t \o "..@- ~ empty()">>]
    ELSE [working |-> st.code = 0
                      /\ \E i \in 1..Len(st.stdout) : NonBlank(st.stdout[i]),
          commits |-> IF lg.code = 0 THEN ParseCount(lg.stdout) ELSE 0,
          execs |-> <<"git status --porcelain",
                      "git rev-list --count " \o t \o "..HEAD">>]

\* The parts with the commit part pushed for every count, zero included.
Parts_ZeroCount(working, commits, t) ==
  (IF working THEN <<"uncommitted changes in the working copy">> ELSE <<>>)
  \o <<ToString(commits) \o " commit(s) ahead of " \o t>>

\* parts.join(" and ")
Parts(working, commits, t) ==
  (IF working THEN <<"uncommitted changes in the working copy">> ELSE <<>>)
  \o (IF commits > 0
        THEN <<ToString(commits) \o " commit(s) ahead of " \o t>>
        ELSE <<>>)

JoinAnd(parts) ==
  IF Len(parts) = 2 THEN parts[1] \o " and " \o parts[2] ELSE parts[1]

\* The message delivered without asking for a further turn.
Reminder_NoTurn(working, commits, t) ==
  [ customType |-> "ci-guard",
    content |-> "Reminder: there are " \o JoinAnd(Parts(working, commits, t))
                \o ". Run 'selfci check' to validate before finishing.",
    display |-> TRUE,
    deliverAs |-> "followUp",
    triggerTurn |-> FALSE ]

\* The message handed to pi.sendMessage and its delivery options.  (A TLA+
\* string cannot hold a backquote: the backquotes of the source text around
\* selfci check are written as apostrophes.)
Reminder(working, commits, t) ==
  [ customType |-> "ci-guard",
    content |-> "Reminder: there are " \o JoinAnd(Parts(working, commits, t))
                \o ". Run 'selfci check' to validate before finishing.",
    display |-> TRUE,
    deliverAs |-> "followUp",
    triggerTurn |-> TRUE ]

\* ------------------------------------------------------------------ state

VARIABLES
  lastCiPassed,   \* let lastCiPassed = false
  hasSelfci,      \* let hasSelfci: boolean | null = null
  vcs,            \* let vcs: "jj" | "git" | null = null
  trunkBranch,    \* let trunkBranch: string | null = null
  env,            \* the working directory the probes read
  last,           \* the event handled by the latest step
  ret,            \* what the tool_call handler returned for it
  setup,          \* the detectSetup call of the latest step
  changes,        \* the hasChanges call of the latest step, with the answers
                  \* of its two queries
  sent,           \* the messages the latest step handed to pi.sendMessage
  prevCi,         \* lastCiPassed before the latest step
  ghost,          \* what has happened since the last successful validation
  tasks,          \* the handlers suspended at an await pi.exec(...)
  execCount,      \* how often each resolution of detectSetup issued its probe
  done,           \* the suspended handler that the latest step ran to its end
  lib             \* the latest call of a library function or of /jj:commit

vars ==
  << lastCiPassed, hasSelfci, vcs, trunkBranch, env, last, ret, setup, changes,
     sent, prevCi, ghost, tasks, execCount, done, lib >>

\* The state that only the sessions with suspended handlers, respectively the
\* calls of the library functions, change.
aux == << tasks, execCount, done, lib >>

\* No handler is suspended; no probe was issued; no function was called.
NoTasks == <<>>

NoExecs == [marker |-> 0, vcs |-> 0, trunk |-> 0]

NoCall == [op |-> "none", args |-> <<>>, returned |-> TRUE, out |-> <<>>]

\* A handler invocation: the event it handles, the pi.exec call it awaits
\* (pc), lastCiPassed when it was entered, and inside hasChanges the branch
\* taken (vcs) and the awaited result of the status query (st).
Task(kind, command, pc, ci) ==
  [kind |-> kind, command |-> command, pc |-> pc, ciAtEntry |-> ci,
   vcs |-> "null", st |-> [code |-> 1, stdout |-> <<>>]]

NoTask == Task("none", <<>>, "none", FALSE)

\* The text of the block decision.  (Backquotes written as apostrophes.)
BlockReason ==
  "CI has not passed for the current changes. Run 'selfci check' first and ensure it passes before pushing."

\* A handler that returns nothing (undefined): the tool call goes ahead.
NoBlock == [block |-> FALSE, reason |-> ""]

Block == [block |-> TRUE, reason |-> BlockReason]

NotCalled == [called |-> FALSE, result |-> FALSE, execs |-> <<>>]

\* No query made: the answers recorded are those of a query with no output.
NoOutput == [code |-> 0, stdout |-> <<>>]

NoChanges ==
  [called |-> FALSE, working |-> FALSE, commits |-> 0, execs |-> <<>>,
   status |-> NoOutput, log |-> NoOutput]

Event(kind, toolName, command, details) ==
  [kind |-> kind, toolName |-> toolName, command |-> command, details |-> details]

\* The tool events the host delivers: a Bash event carries a command text,
\* another tool's event has none.
ToolEvents ==
  { t \in [toolName : ToolNames, command : Commands \cup {NoCommand}] :
      (t.toolName = "Bash") <=> (t.command # NoCommand) }

\* The tool_result events: the details of a Bash result carry the exit code,
\* the details of another tool's result have no exitCode.
ToolResults ==
  { r \in [toolName : ToolNames, command : Commands \cup {NoCommand},
           details : ResultDetails] :
      /\ (r.toolName = "Bash") <=> (r.command # NoCommand)
      /\ r.toolName # "Bash" => r.details = NoDetails }

\* The working directories of the sessions of Spec: a jj bookmark main and
\* the git branches master and trunk exist; the marker file and the metadata
\* directories come and go.
GateEnvs ==
  { e \in Envs : e.bookmarks = [code |-> 0, stdout |-> <<L_main>>]
                 /\ e.gitRefs = {"master", "trunk"} }

\* The tool events of the sessions of SpecSetup: a push, the validation
\* command, a file edit.
SetupToolEvents ==
  { t \in ToolEvents : t.toolName = "Edit" \/ t.command \in {C_jjGitPush, C_selfciCheck} }

SetupToolResults ==
  { r \in ToolResults : [toolName |-> r.toolName, command |-> r.command] \in SetupToolEvents }

\* The answers of the two queries of hasChanges in the sessions of SpecSetup:
\* queries that succeed, with and without changes.
SetupStatusOutputs ==
  { o \in StatusOutputs : o.code = 0 /\ o.stdout \in {<<>>, <<S_modified>>} }

SetupLogOutputs ==
  { o \in LogOutputs : o.code = 0 /\ o.stdout \in {<<>>, <<G_one>>, <<G_two>>} }

\* The state after the module is loaded, in a working directory of E.
Loaded(E) ==
  /\ lastCiPassed = FALSE
  /\ hasSelfci = "null"
  /\ vcs = "null"
  /\ trunkBranch = "null"
  /\ env \in E
  /\ last = Event("init", "", NoCommand, NoDetails)
  /\ ret = NoBlock
  /\ setup = NotCalled
  /\ changes = NoChanges
  /\ sent = <<>>
  /\ prevCi = FALSE
  /\ ghost = [okSeen |-> FALSE, changed |-> FALSE, reset |-> FALSE]
  /\ tasks = NoTasks
  /\ execCount = NoExecs
  /\ done = NoTask

Start(E) == Loaded(E) /\ lib = NoCall

Init == Start(GateEnvs)

InitSetup == Start(Envs)

\* ------------------------------------------------------ tool_result handlers

\* The first handler without the test of the exit code.
TrackCi_AnyExit(ci, toolName, command, details) ==
  IF toolName # "Bash" THEN ci
  ELSE IF CommandClass[command].validation THEN TRUE ELSE ci

\* The first handler taking a missing exit code for success.
TrackCi_MissingIsSuccess(ci, toolName, command, details) ==
  IF toolName # "Bash" THEN ci
  ELSE IF CommandClass[command].validation
          /\ (details.defined => details.exitCode = 0)
    THEN TRUE
    ELSE ci

\* First handler: track CI results from bash commands.
TrackCi(ci, toolName, command, details) ==
  IF toolName # "Bash" THEN ci
  ELSE IF CommandClass[command].validation
          /\ details.defined /\ details.exitCode = 0
    THEN TRUE
    ELSE ci

\* The reset also applied to the result of a push.
ResetOnBash_AlsoPush(ci, toolName, command) ==
  IF toolName # "Bash" THEN ci
  ELSE IF CommandClass[command].jjMutation THEN FALSE
  ELSE IF CommandClass[command].gitMutation THEN FALSE
  ELSE IF CommandClass[command].push THEN FALSE
  ELSE ci

\* Second handler: reset CI state when the repo changes via bash.
ResetOnBash(ci, toolName, command) ==
  IF toolName # "Bash" THEN ci
  ELSE IF CommandClass[command].jjMutation THEN FALSE
  ELSE IF CommandClass[command].gitMutation THEN FALSE
  ELSE ci

\* The third handler looking at Edit only.
ResetOnEdit_EditOnly(ci, toolName) ==
  IF toolName = "Edit" THEN FALSE ELSE ci

\* Third handler: reset CI state on file edits.
ResetOnEdit(ci, toolName) ==
  IF toolName = "Edit" \/ toolName = "Write" THEN FALSE ELSE ci

\* The validation tracker run after the two reset handlers.
AfterToolResult_TrackLast(ci, toolName, command, details) ==
  TrackCi(ResetOnEdit(ResetOnBash(ci, toolName, command), toolName),
          toolName, command, details)

\* The three handlers in registration order.
AfterToolResult(ci, toolName, command, details) ==
  ResetOnEdit(ResetOnBash(TrackCi(ci, toolName, command, details),
                          toolName, command),
              toolName)

\* The event is a run of the validation command that succeeded.
ValidationSucceeded(toolName, command, details) ==
  toolName = "Bash" /\ command = C_selfciCheck
  /\ details.defined /\ details.exitCode = 0

\* The event is one the tracker recognises as a mutation.
Recognised(toolName, command) ==
  \/ toolName \in {"Edit", "Write"}
  \/ /\ toolName = "Bash"
     /\ CommandClass[command].jjMutation \/ CommandClass[command].gitMutation

GhostAfter(g, toolName, command, details) ==
  LET ok == ValidationSucceeded(toolName, command, details)
      seen == g.okSeen \/ ok
  IN [ okSeen |-> seen,
       changed |-> seen /\ IF ChangesPushContent(toolName, command) THEN TRUE
                           ELSE IF ok THEN FALSE ELSE g.changed,
       reset |-> seen /\ IF Recognised(toolName, command) THEN TRUE
                         ELSE IF ok THEN FALSE ELSE g.reset ]

ToolResult(toolName, command, details) ==
  /\ lastCiPassed' = AfterToolResult(lastCiPassed, toolName, command, details)
  /\ last' = Event("tool_result", toolName, command, details)
  /\ ret' = NoBlock
  /\ setup' = NotCalled
  /\ changes' = NoChanges
  /\ sent' = <<>>
  /\ prevCi' = lastCiPassed
  /\ ghost' = GhostAfter(ghost, toolName, command, details)
  /\ UNCHANGED << hasSelfci, vcs, trunkBranch, env, aux >>

\* --------------------------------------------------------- tool_call handler

\* The guard with the negation of lastCiPassed dropped.
PushDecision_BlocksValidated(active, ci) ==
  IF ~active THEN NoBlock
  ELSE IF ci THEN Block ELSE NoBlock

\* The guard without the detectSetup test.
PushDecision_IgnoresSetup(active, ci) ==
  IF ~ci THEN Block ELSE NoBlock

\* The guard blocking every push when gating is active.
PushDecision_AlwaysBlocks(active, ci) ==
  IF ~active THEN NoBlock ELSE Block

\* if (!(await detectSetup(pi))) return; if (!lastCiPassed) return { block ... }
PushDecision(active, ci) ==
  IF ~active THEN NoBlock
  ELSE IF ~ci THEN Block ELSE NoBlock

\* The guard run once for each push pattern the command matches.
ToolCall_PerPattern(toolName, command) ==
  /\ last' = Event("tool_call", toolName, command, NoDetails)
  /\ changes' = NoChanges
  /\ sent' = <<>>
  /\ prevCi' = lastCiPassed
  /\ IF toolName # "Bash" \/ ~CommandClass[command].push
       THEN /\ ret' = NoBlock
            /\ setup' = NotCalled
            /\ UNCHANGED << hasSelfci, vcs, trunkBranch >>
       ELSE LET both == IsJjGitPush(command) /\ IsGitPush(command)
                d1 == DetectSetup(hasSelfci, vcs, trunkBranch, env)
                d == IF both
                       THEN DetectSetup(d1.hasSelfci, d1.vcs, d1.trunkBranch, env)
                       ELSE d1
            IN
            /\ hasSelfci' = d.hasSelfci
            /\ vcs' = d.vcs
            /\ trunkBranch' = d.trunkBranch
            /\ setup' = [called |-> TRUE, result |-> d.result,
                         execs |-> IF both THEN d1.execs \o d.execs ELSE d.execs]
            /\ ret' = PushDecision(d.result, lastCiPassed)
  /\ UNCHANGED << lastCiPassed, env, ghost, aux >>

\* The guard with a setup resolution that starts the tracking afresh: a
\* detectSetup call that runs a probe also sets lastCiPassed to false.
ToolCall_SetupResets(toolName, command) ==
  /\ last' = Event("tool_call", toolName, command, NoDetails)
  /\ changes' = NoChanges
  /\ sent' = <<>>
  /\ prevCi' = lastCiPassed
  /\ IF toolName # "Bash" \/ ~CommandClass[command].push
       THEN /\ ret' = NoBlock
            /\ setup' = NotCalled
            /\ UNCHANGED << hasSelfci, vcs, trunkBranch, lastCiPassed >>
       ELSE LET d == DetectSetup(hasSelfci, vcs, trunkBranch, env) IN
            /\ hasSelfci' = d.hasSelfci
            /\ vcs' = d.vcs
            /\ trunkBranch' = d.trunkBranch
            /\ setup' = [called |-> TRUE, result |-> d.result, execs |-> d.execs]
            /\ lastCiPassed' = (lastCiPassed /\ d.execs = <<>>)
            /\ ret' = PushDecision(d.result, lastCiPassed')
  /\ UNCHANGED << env, ghost, aux >>

ToolCall(toolName, command) ==
  /\ last' = Event("tool_call", toolName, command, NoDetails)
  /\ changes' = NoChanges
  /\ sent' = <<>>
  /\ prevCi' = lastCiPassed
  /\ IF toolName # "Bash" \/ ~CommandClass[command].push
       THEN /\ ret' = NoBlock
            /\ setup' = NotCalled
            /\ UNCHANGED << hasSelfci, vcs, trunkBranch >>
       ELSE LET d == DetectSetup(hasSelfci, vcs, trunkBranch, env) IN
            /\ hasSelfci' = d.hasSelfci
            /\ vcs' = d.vcs
            /\ trunkBranch' = d.trunkBranch
            /\ setup' = [called |-> TRUE, result |-> d.result, execs |-> d.execs]
            /\ ret' = PushDecision(d.result, lastCiPassed)
  /\ UNCHANGED << lastCiPassed, env, ghost, aux >>

\* --------------------------------------------------------- agent_end handler

\* The reminder sent only when both kinds of change are present.
Advisory_BothKinds(hc, t) ==
  IF hc.working /\ hc.commits > 0
    THEN << Reminder(hc.working, hc.commits, t) >>
    ELSE <<>>

\* if (working || commits > 0) { ... pi.sendMessage(...) }
Advisory(hc, t) ==
  IF hc.working \/ hc.commits > 0
    THEN << Reminder(hc.working, hc.commits, t) >>
    ELSE <<>>

AgentEnd(st, lg) ==
  /\ last' = Event("agent_end", "", NoCommand, NoDetails)
  /\ ret' = NoBlock
  /\ prevCi' = lastCiPassed
  /\ IF lastCiPassed
       THEN /\ setup' = NotCalled
            /\ changes' = NoChanges
            /\ sent' = <<>>
            /\ UNCHANGED << hasSelfci, vcs, trunkBranch >>
       ELSE LET d == DetectSetup(hasSelfci, vcs, trunkBranch, env) IN
            /\ hasSelfci' = d.hasSelfci
            /\ vcs' = d.vcs
            /\ trunkBranch' = d.trunkBranch
            /\ setup' = [called |-> TRUE, result |-> d.result, execs |-> d.execs]
            /\ IF ~d.result
                 THEN changes' = NoChanges /\ sent' = <<>>
                 ELSE LET hc == HasChanges(d.vcs, d.trunkBranch, st, lg) IN
                      /\ changes' = [called |-> TRUE, working |-> hc.working,
                                     commits |-> hc.commits, execs |-> hc.execs,
                                     status |-> st, log |-> lg]
                      /\ sent' = Advisory(hc, d.trunkBranch)
  /\ UNCHANGED << lastCiPassed, env, ghost, aux >>

\* ------------------------------------------------------------ environment

\* Something outside the extension changes one thing of the working
\* directory: the marker file, a metadata directory, the bookmarks, the refs.
EnvChange(e) ==
  /\ Cardinality({ f \in DOMAIN env : env[f] # e[f] }) = 1
  /\ env' = e
  /\ last' = Event("env", "", NoCommand, NoDetails)
  /\ ret' = NoBlock
  /\ setup' = NotCalled
  /\ changes' = NoChanges
  /\ sent' = <<>>
  /\ prevCi' = lastCiPassed
  /\ UNCHANGED << lastCiPassed, hasSelfci, vcs, trunkBranch, ghost, aux >>

Next ==
  \/ \E r \in ToolResults : ToolResult(r.toolName, r.command, r.details)
  \/ \E t \in ToolEvents : ToolCall(t.toolName, t.command)
  \/ \E st \in StatusOutputs : \E lg \in LogOutputs : AgentEnd(st, lg)
  \/ \E e \in GateEnvs : EnvChange(e)

\* Sessions with every tool event, in the working directories of GateEnvs.
Spec == Init /\ [][Next]_vars

NextSetup ==
  \/ \E r \in SetupToolResults : ToolResult(r.toolName, r.command, r.details)
  \/ \E t \in SetupToolEvents : ToolCall(t.toolName, t.command)
  \/ \E st \in SetupStatusOutputs : \E lg \in SetupLogOutputs : AgentEnd(st, lg)
  \/ \E e \in Envs : EnvChange(e)

\* Sessions with the tool events of SetupToolEvents, in every working
\* directory of Envs.
SpecSetup == InitSetup /\ [][NextSetup]_vars

\* ------------------------------------------------ the turn a reminder asks for

\* The host starts the turn that the reminder of the latest agent_end asked
\* for (triggerTurn: true); the agent calls no tool in it.
TriggeredTurn ==
  /\ last.kind = "agent_end"
  /\ sent # <<>>
  /\ sent[1].triggerTurn
  /\ last' = Event("turn", "", NoCommand, NoDetails)
  /\ ret' = NoBlock
  /\ setup' = NotCalled
  /\ sent' = <<>>
  /\ prevCi' = lastCiPassed
  /\ UNCHANGED << lastCiPassed, hasSelfci, vcs, trunkBranch, env, changes,
                  ghost, aux >>

\* The triggered turn ends without a tool call: agent_end is handled in the
\* repository as the agent_end before it found it.
IdleTurnEnd ==
  /\ last.kind = "turn"
  /\ changes.called
  /\ AgentEnd(changes.status, changes.log)

NextTurns ==
  \/ \E r \in SetupToolResults : ToolResult(r.toolName, r.command, r.details)
  \/ \E t \in SetupToolEvents : ToolCall(t.toolName, t.command)
  \/ /\ last.kind # "turn"
     /\ \E st \in SetupStatusOutputs : \E lg \in SetupLogOutputs : AgentEnd(st, lg)
  \/ \E e \in GateEnvs : EnvChange(e)
  \/ TriggeredTurn
  \/ IdleTurnEnd

\* Sessions in which the host runs the turns the reminders ask for: a
\* requested turn is started, and a turn without tool calls ends.
SpecTurns ==
  Init /\ [][NextTurns]_vars /\ WF_vars(TriggeredTurn) /\ WF_vars(IdleTurnEnd)

\* ------------------------------------------- handlers suspended at await

\* detectSetup from the test of hasSelfci, of vcs and of trunkBranch on: the
\* probe the call awaits next, or the value it returns ("true" / "false").
AfterTrunk(t) == IF SetupResult(t) THEN "true" ELSE "false"

AfterVcs(v, t) ==
  IF v = "null" THEN "false"
  ELSE IF t = "null" THEN (IF v = "jj" THEN P_bookmarks ELSE P_revParse.main)
  ELSE AfterTrunk(t)

AfterMarker(h, v, t) ==
  IF h # "true" THEN "false"
  ELSE IF v = "null" THEN P_dotJj
  ELSE AfterVcs(v, t)

EnterSetup(h, v, t) ==
  IF h = "null" THEN P_marker ELSE AfterMarker(h, v, t)

\* detectSetup resumed when the probe pc it awaits has completed in the
\* working directory e, the cached fields being h, v, t at that moment: the
\* fields it assigns and where it goes next.
ResumeSetup(pc, h, v, t, e) ==
  LET ok == Exec(e, pc).code = 0 IN
  CASE pc = P_marker ->
         LET h2 == IF ok THEN "true" ELSE "false" IN
         [hasSelfci |-> h2, vcs |-> v, trunkBranch |-> t,
          next |-> AfterMarker(h2, v, t)]
    [] pc = P_dotJj ->
         IF ok
           THEN [hasSelfci |-> h, vcs |-> "jj", trunkBranch |-> t,
                 next |-> AfterVcs("jj", t)]
           ELSE [hasSelfci |-> h, vcs |-> v, trunkBranch |-> t,
                 next |-> P_dotGit]
    [] pc = P_dotGit ->
         LET v2 == IF ok THEN "git" ELSE "null" IN
         [hasSelfci |-> h, vcs |-> v2, trunkBranch |-> t,
          next |-> AfterVcs(v2, t)]
    [] pc = P_bookmarks ->
         LET found == JjTrunk(e).value
             t2 == IF found # "null" THEN found ELSE t
         IN [hasSelfci |-> h, vcs |-> v, trunkBranch |-> t2,
             next |-> AfterTrunk(t2)]
    [] OTHER ->
         LET i == CHOOSE k \in 1..Len(TrunkNames) : pc = P_revParse[TrunkNames[k]]
         IN IF ok
              THEN [hasSelfci |-> h, vcs |-> v, trunkBranch |-> TrunkNames[i],
                    next |-> AfterTrunk(TrunkNames[i])]
              ELSE [hasSelfci |-> h, vcs |-> v, trunkBranch |-> t,
                    next |-> IF i < Len(TrunkNames)
                               THEN P_revParse[TrunkNames[i + 1]]
                               ELSE AfterTrunk(t)]

\* The handlers that may be suspended at the same time, and the probes one
\* resolution may issue in a session.
MaxTasks == 2

MaxExecs == 3

\* The probe a resolution starts with is counted when it is issued.
Counted(c, pc) ==
  IF pc = P_marker THEN [c EXCEPT !.marker = @ + 1]
  ELSE IF pc = P_dotJj THEN [c EXCEPT !.vcs = @ + 1]
  ELSE IF pc \in {P_bookmarks, P_revParse.main} THEN [c EXCEPT !.trunk = @ + 1]
  ELSE c

\* A further handler may be entered.
MayEnter ==
  /\ Len(tasks) < MaxTasks
  /\ \A k \in DOMAIN execCount : execCount[k] + Len(tasks) + 1 <= MaxExecs

\* The push guard deciding on the value lastCiPassed had when it was entered.
PushOutcome_AtEntry(tk, active, ci) == PushDecision(active, tk.ciAtEntry)

\* if (!(await detectSetup(pi))) return; if (!lastCiPassed) return {block...}
PushOutcome(tk, active, ci) == PushDecision(active, ci)

\* The handler tk goes on from the point tk.pc with the cached fields h, v, t
\* assigned: it is suspended at its next pi.exec, or it runs to its end.
\* pending are the other suspended handlers.
Proceed(tk, h, v, t, pending) ==
  /\ hasSelfci' = h
  /\ vcs' = v
  /\ trunkBranch' = t
  /\ sent' = <<>>
  /\ IF tk.pc \in {"true", "false"}
       THEN IF tk.kind = "agent_end" /\ tk.pc = "true"
              THEN \* const { working, commits } = await hasChanges(pi)
                   /\ tasks' = Append(pending, [tk EXCEPT !.pc = "status", !.vcs = v])
                   /\ ret' = NoBlock
                   /\ done' = NoTask
                   /\ execCount' = execCount
              ELSE /\ tasks' = pending
                   /\ ret' = IF tk.kind = "push"
                               THEN PushOutcome(tk, tk.pc = "true", lastCiPassed)
                               ELSE NoBlock
                   /\ done' = tk
                   /\ execCount' = execCount
       ELSE /\ tasks' = Append(pending, tk)
            /\ ret' = NoBlock
            /\ done' = NoTask
            /\ execCount' = Counted(execCount, tk.pc)

\* pi.on("tool_call"): the guard entered for a push command, up to its first
\* await or, with nothing to probe, to its end.
BeginPush(command) ==
  /\ MayEnter
  /\ CommandClass[command].push
  /\ last' = Event("tool_call", "Bash", command, NoDetails)
  /\ prevCi' = lastCiPassed
  /\ setup' = NotCalled
  /\ changes' = NoChanges
  /\ Proceed(Task("push", command, EnterSetup(hasSelfci, vcs, trunkBranch),
                  lastCiPassed),
             hasSelfci, vcs, trunkBranch, tasks)
  /\ UNCHANGED << lastCiPassed, env, ghost, lib >>

\* pi.on("agent_end"): the reminder entered.
BeginAgentEnd ==
  /\ MayEnter
  /\ last' = Event("agent_end", "", NoCommand, NoDetails)
  /\ prevCi' = lastCiPassed
  /\ setup' = NotCalled
  /\ changes' = NoChanges
  /\ Proceed(Task("agent_end", NoCommand,
                  IF lastCiPassed THEN "false"
                  ELSE EnterSetup(hasSelfci, vcs, trunkBranch),
                  lastCiPassed),
             hasSelfci, vcs, trunkBranch, tasks)
  /\ UNCHANGED << lastCiPassed, env, ghost, lib >>

\* The suspended handlers but the i-th.
Others(i) == SubSeq(tasks, 1, i - 1) \o SubSeq(tasks, i + 1, Len(tasks))

\* The pi.exec call that the i-th suspended handler awaits completes (out is
\* the answer of a query of hasChanges) and the handler goes on.
Resume(i, out) ==
  LET tk == tasks[i] IN
  /\ last' = Event("resume", tk.kind, tk.command, NoDetails)
  /\ prevCi' = lastCiPassed
  /\ setup' = NotCalled
  /\ IF tk.pc = "status"
       THEN /\ tasks' = Append(Others(i), [tk EXCEPT !.pc = "log", !.st = out])
            /\ changes' = NoChanges
            /\ sent' = <<>>
            /\ ret' = NoBlock
            /\ done' = NoTask
            /\ UNCHANGED << hasSelfci, vcs, trunkBranch, execCount >>
       ELSE IF tk.pc = "log"
         THEN LET hc == HasChanges(tk.vcs, trunkBranch, tk.st, out) IN
              /\ tasks' = Others(i)
              /\ changes' = [called |-> TRUE, working |-> hc.working,
                             commits |-> hc.commits, execs |-> hc.execs,
                             status |-> tk.st, log |-> out]
              /\ sent' = Advisory(hc, trunkBranch)
              /\ ret' = NoBlock
              /\ done' = tk
              /\ UNCHANGED << hasSelfci, vcs, trunkBranch, execCount >>
         ELSE LET r == ResumeSetup(tk.pc, hasSelfci, vcs, trunkBranch, env) IN
              /\ changes' = NoChanges
              /\ Proceed([tk EXCEPT !.pc = r.next],
                         r.hasSelfci, r.vcs, r.trunkBranch, Others(i))
  /\ UNCHANGED << lastCiPassed, env, ghost, lib >>

\* The working directories and the events of the sessions with suspended
\* handlers: the validation command (passing or failing), a file edit, the
\* two pushes, and the turn's end.
AsyncEnvs ==
  { e \in GateEnvs : e.marker /\ (e.dotJj => ~e.dotGit) }

AsyncToolResults ==
  { [toolName |-> "Bash", command |-> C_selfciCheck,
     details |-> [defined |-> TRUE, exitCode |-> 0]],
    [toolName |-> "Edit", command |-> NoCommand, details |-> NoDetails] }

AsyncOutputs ==
  { [code |-> 0, stdout |-> <<>>], [code |-> 0, stdout |-> <<S_modified>>] }

InitAsync == Start(AsyncEnvs)

NextAsync ==
  \/ \E r \in AsyncToolResults : ToolResult(r.toolName, r.command, r.details)
  \/ \E c \in {C_jjGitPush, C_gitPush} : BeginPush(c)
  \/ BeginAgentEnd
  \/ \E i \in DOMAIN tasks : \E out \in AsyncOutputs : Resume(i, out)

\* Sessions in which a handler may be entered while others are suspended at
\* an await (the events are not delivered one after the other).
SpecAsync == InitAsync /\ [][NextAsync]_vars

\* ------------------------------------------------- /jj:commit (jj extension)

\* A directory is the sequence of the names on its absolute path; "/" is <<>>.
Root == <<>>

\* dirname of node:path on an absolute path: the parent, and "/" for "/".
Dirname(dir) == IF dir = Root THEN Root ELSE SubSeq(dir, 1, Len(dir) - 1)

\* isJjRepo(dir), jjDirs being the directories in which existsSync finds ".jj".
\* (The parent of a directory other than "/" is never the directory itself.)
RECURSIVE IsJjRepo(_, _)
IsJjRepo(dir, jjDirs) ==
  IF dir = Root THEN FALSE
  ELSE IF dir \in jjDirs THEN TRUE
  ELSE IF Dirname(dir) = dir THEN FALSE
  ELSE IsJjRepo(Dirname(dir), jjDirs)

\* The directories of the calls: /, /a, /a/b, /c.
Dirs == { Root, <<"a">>, <<"a", "b">>, <<"c">> }

\* A call that has not returned yet, and the calls of /jj:commit.
Calling(op, args) == [op |-> op, args |-> args, returned |-> FALSE, out |-> <<>>]

JjCommitCalls ==
  { Calling("jj:commit", [cwd |-> cwd, jjDirs |-> jjDirs]) :
      cwd \in Dirs, jjDirs \in SUBSET Dirs }

\* The handler of /jj:commit run with ctx.cwd = cwd: what it handed to
\* ctx.ui.notify and to pi.sendUserMessage.
JjCommitHandler(cwd, jjDirs) ==
  IF ~IsJjRepo(cwd, jjDirs)
    THEN [notified |-> << [message |-> "Not in a jujutsu repository",
                           type |-> "error"] >>,
          userMessages |-> <<>>]
    ELSE [notified |-> <<>>, userMessages |-> << "/skill:jj-commit" >>]

JjCommit ==
  /\ lib.op = "jj:commit"
  /\ ~lib.returned
  /\ lib' = [lib EXCEPT !.returned = TRUE,
                        !.out = JjCommitHandler(lib.args.cwd, lib.args.jjDirs)]
  /\ UNCHANGED << lastCiPassed, hasSelfci, vcs, trunkBranch, env, last, ret,
                  setup, changes, sent, prevCi, ghost, tasks, execCount, done >>

\* ------------------------------------------- parseFindings (code review)

\* The text of a review is a sequence of lexemes: "###", a severity in
\* brackets, a bold field marker, "---", a word, " ", "\n" and the backquote,
\* written "'".

\* The first position from i on whose lexeme is in class (inside) or not in
\* it (~inside), Len(s) + 1 if none.
FirstFrom(s, i, class, inside) ==
  LET hits == { j \in i..Len(s) : (s[j] \in class) = inside }
  IN IF hits = {} THEN Len(s) + 1 ELSE Min(hits)

\* String.prototype.trim
Trim(s) ==
  LET keep == { j \in DOMAIN s : ~IsWs(s[j]) }
  IN IF keep = {} THEN <<>>
     ELSE SubSeq(s, Min(keep), CHOOSE j \in keep : \A k \in keep : k <= j)

\* Where the capture group starts when \s+ (least = 1) or \s* followed by an
\* optional backquote (ticks) is matched from position a and the group takes
\* at least one character other than "\n" (and other than a backquote, with
\* ticks); 0 when there is no match.  The whitespace is matched greedily and
\* given back one character at a time, the backquote is taken if possible.
CaptureStart(s, a, least, ticks) ==
  LET run == FirstFrom(s, a, {" ", "\t", "\n"}, FALSE) - a
      Fits(w, t) ==
        /\ a + w + t <= Len(s)
        /\ t = 1 => s[a + w] = "'"
        /\ s[a + w + t] # "\n"
        /\ ticks => s[a + w + t] # "'"
      cands == { c \in (least..run) \X (IF ticks THEN {0, 1} ELSE {0}) :
                   Fits(c[1], c[2]) }
      best == CHOOSE c \in cands :
                \A d \in cands : d[1] < c[1] \/ (d[1] = c[1] /\ d[2] <= c[2])
  IN IF cands = {} THEN 0 ELSE a + best[1] + best[2]

\* /###\s+\[(HIGH|MEDIUM|LOW)\]\s+(.+)/ matched at position i: the heading
\* with its index, the two groups (the title trimmed) and its last position.
HeadingAt(s, i) ==
  LET k == FirstFrom(s, i + 1, {" ", "\t", "\n"}, FALSE)
      from == IF /\ s[i] = "###" /\ k > i + 1 /\ k <= Len(s)
                 /\ s[k] \in {"[HIGH]", "[MEDIUM]", "[LOW]"}
                THEN CaptureStart(s, k + 1, 1, FALSE)
                ELSE 0
      to == FirstFrom(s, from, {"\n"}, TRUE) - 1
  IN IF from = 0
       THEN [ok |-> FALSE, index |-> i, severity |-> "", title |-> <<>>, to |-> i]
       ELSE [ok |-> TRUE, index |-> i,
             severity |-> CASE s[k] = "[HIGH]" -> "HIGH"
                            [] s[k] = "[MEDIUM]" -> "MEDIUM"
                            [] OTHER -> "LOW",
             title |-> Trim(SubSeq(s, from, to)), to |-> to]

\* while ((match = headingPattern.exec(text)) !== null): the matches from
\* position i on, each search starting after the last match.
RECURSIVE Headings(_, _)
Headings(s, i) ==
  IF i > Len(s) THEN <<>>
  ELSE IF HeadingAt(s, i).ok
    THEN <<HeadingAt(s, i)>> \o Headings(s, HeadingAt(s, i).to + 1)
    ELSE Headings(s, i + 1)

\* The lexemes that match \*\*\w+:\*\*
FieldMarkers ==
  {"**File:**", "**Category:**", "**Issue:**", "**Suggestion:**", "**Effort:**"}

\* extractField(block, fieldName): undefined or the trimmed group.
ExtractField(block, marker) ==
  LET hits == { p \in DOMAIN block :
                  block[p] = marker /\ CaptureStart(block, p + 1, 0, TRUE) > 0 }
      from == CaptureStart(block, Min(hits) + 1, 0, TRUE)
      to == FirstFrom(block, from, {"\n", "'"}, TRUE) - 1
  IN IF hits = {} THEN [defined |-> FALSE, value |-> <<>>]
     ELSE [defined |-> TRUE, value |-> Trim(SubSeq(block, from, to))]

\* extractMultiLineField(block, fieldName): the text after the marker up to
\* the next field marker, "---" or the end of the block, trimmed; undefined
\* when there is no marker or the text is empty.
ExtractMultiLineField(block, marker) ==
  LET hits == { p \in DOMAIN block : block[p] = marker }
      from == FirstFrom(block, Min(hits) + 1, {" ", "\t", "\n"}, FALSE)
      to == FirstFrom(block, from, FieldMarkers \cup {"---"}, TRUE) - 1
      value == Trim(SubSeq(block, from, to))
  IN IF hits = {} \/ value = <<>> THEN [defined |-> FALSE, value |-> <<>>]
     ELSE [defined |-> TRUE, value |-> value]

\* parseFindings(text, skill)
ParseFindings(text, skill) ==
  LET headings == Headings(text, 1) IN
  [ i \in DOMAIN headings |->
      LET nextIndex == IF i < Len(headings) THEN headings[i + 1].index
                       ELSE Len(text) + 1
          block == SubSeq(text, headings[i].index, nextIndex - 1)
          issue == ExtractMultiLineField(block, "**Issue:**")
          suggestion == ExtractMultiLineField(block, "**Suggestion:**")
          effortRaw == ExtractField(block, "**Effort:**")
          lower == IF Len(effortRaw.value) = 1
                     THEN (IF effortRaw.value[1] = "Small" THEN "small"
                           ELSE effortRaw.value[1])
                     ELSE ""
      IN [ severity |-> headings[i].severity,
           title |-> headings[i].title,
           file |-> ExtractField(block, "**File:**"),
           category |-> ExtractField(block, "**Category:**"),
           issue |-> IF issue.defined THEN issue.value ELSE <<"(no description)">>,
           suggestion |-> IF suggestion.defined THEN suggestion.value
                          ELSE <<"(no suggestion)">>,
           effort |-> IF lower \in {"trivial", "small", "medium", "large"}
                        THEN [defined |-> TRUE, value |-> lower]
                        ELSE [defined |-> FALSE, value |-> ""],
           skill |-> skill ] ]

\* The lines of the reviews: two headings with a title, a heading without
\* one, the fields of a finding, a line of prose.
ReviewLine ==
  [ highA |-> <<"###", " ", "[HIGH]", " ", "a">>,
    lowB |-> <<"###", " ", "[LOW]", " ", "b">>,
    bare |-> <<"###", " ", "[HIGH]">>,
    file |-> <<"**File:**", " ", "'", "f", "'">>,
    issue |-> <<"**Issue:**", " ", "x">>,
    suggestion |-> <<"**Suggestion:**", " ", "y">>,
    effort |-> <<"**Effort:**", " ", "Small">>,
    prose |-> <<"p">> ]

MaxLines == 4

\* lines.join("\n")
RECURSIVE JoinLines(_)
JoinLines(lines) ==
  IF lines = <<>> THEN <<>>
  ELSE IF Len(lines) = 1 THEN lines[1]
  ELSE lines[1] \o <<"\n">> \o JoinLines(Tail(lines))

ParseCalls ==
  { Calling("parseFindings", [lines |-> ln, skill |-> "gleam-code-review"]) :
      ln \in UNION { [1..n -> { ReviewLine[f] : f \in DOMAIN ReviewLine }] :
                       n \in 0..MaxLines } }

\* A call of parseFindings on the lines joined returns.
CallParseFindings ==
  /\ lib.op = "parseFindings"
  /\ ~lib.returned
  /\ lib' = [lib EXCEPT !.returned = TRUE,
                        !.out = ParseFindings(JoinLines(lib.args.lines),
                                              lib.args.skill)]
  /\ UNCHANGED << lastCiPassed, hasSelfci, vcs, trunkBranch, env, last, ret,
                  setup, changes, sent, prevCi, ghost, tasks, execCount, done >>

\* ------------------------------------------------- git-guard hook script

\* is_jj_repo "$dir", jjDirs being the directories where [ -d "$dir/.jj" ]
\* holds.
RECURSIVE is_jj_repo(_, _)
is_jj_repo(dir, jjDirs) ==
  IF dir = Root THEN FALSE
  ELSE IF dir \in jjDirs THEN TRUE
  ELSE is_jj_repo(Dirname(dir), jjDirs)

\* (commit|branch|checkout|switch|merge|rebase|reset|stash|add|stage|push|fetch|pull)
GuardVerbs == {
  <<"c","o","m","m","i","t">>,
  <<"b","r","a","n","c","h">>,
  <<"c","h","e","c","k","o","u","t">>,
  <<"s","w","i","t","c","h">>,
  <<"m","e","r","g","e">>,
  <<"r","e","b","a","s","e">>,
  <<"r","e","s","e","t">>,
  <<"s","t","a","s","h">>,
  <<"a","d","d">>,
  <<"s","t","a","g","e">>,
  <<"p","u","s","h">>,
  <<"f","e","t","c","h">>,
  <<"p","u","l","l">> }

\* \bfirst\s+(seconds)\b matches the line s from position i on.
GrepAt(s, i, first, seconds) ==
  LET IsWord(p) ==
        /\ p \in DOMAIN s
        /\ s[p] \in { "a","b","c","d","e","f","g","h","i","j","k","l","m",
                       "n","o","p","q","r","s","t","u","v","w","x","y","z",
                       "0","1","2","3","4","5","6","7","8","9","_" }
      Boundary(p) == IsWord(p - 1) # IsWord(p)
  IN /\ Boundary(i)
     /\ LitAt(s, i, first)
     /\ \E w \in seconds : \E j \in (i + Len(first) + 1)..Len(s) :
          /\ \A k \in (i + Len(first))..(j - 1) : IsWs(s[k])
          /\ LitAt(s, j, w)
          /\ Boundary(j + Len(w))

\* The script run on the hook input with .cwd (hasCwd: present and not
\* empty) and .tool_input.command: its exit status and the decision it
\* writes to stderr.
GitGuard(hasCwd, cwd, jjDirs, command) ==
  IF hasCwd /\ is_jj_repo(cwd, jjDirs)
    THEN IF \E i \in DOMAIN command : GrepAt(command, i, W_jj, {W_git})
           THEN [exit |-> 0, decision |-> "none"]
         ELSE IF \E i \in DOMAIN command : GrepAt(command, i, W_git, GuardVerbs)
           THEN [exit |-> 2, decision |-> "block"]
         ELSE [exit |-> 0, decision |-> "none"]
    ELSE [exit |-> 0, decision |-> "none"]

\* The hook inputs: no command, git and jj commands, and two commands that
\* run jj and then git.
GuardCalls ==
  { Calling("git-guard",
            [hasCwd |-> hc, cwd |-> cwd, jjDirs |-> jjDirs, command |-> c]) :
      hc \in BOOLEAN, cwd \in Dirs, jjDirs \in SUBSET Dirs,
      c \in { NoCommand, C_gitCommit, C_gitPush, C_jjGitPush, C_jjLog,
               <<"g","i","t"," ","s","t","a","t","u","s">>,
               <<"x","g","i","t"," ","a","d","d">>,
               <<"g","i","t"," ","s","t","a","s","h">>,
               <<"j","j"," ","g","i","t"," ","f","e","t","c","h"," ","&","&"," ","g","i","t"," ","c","o","m","m","i","t">>,
               <<"j","j"," ","s","t","a","t","u","s",";"," ","g","i","t"," ","p","u","l","l">> } }

\* The hook runs on its input.
CallGitGuard ==
  /\ lib.op = "git-guard"
  /\ ~lib.returned
  /\ lib' = [lib EXCEPT !.returned = TRUE,
                        !.out = GitGuard(lib.args.hasCwd, lib.args.cwd,
                                         lib.args.jjDirs, lib.args.command)]
  /\ UNCHANGED << lastCiPassed, hasSelfci, vcs, trunkBranch, env, last, ret,
                  setup, changes, sent, prevCi, ghost, tasks, execCount, done >>

\* --------------------------------------------- code-review/lib/skills.ts

\* The UTF-16 code units of the characters of the language names.
CodeUnit ==
  [c \in {"G", "e", "g", "l", "m", "o"} |->
     CASE c = "G" -> 71 [] c = "e" -> 101 [] c = "g" -> 103
       [] c = "l" -> 108 [] c = "m" -> 109 [] OTHER -> 111]

\* a < b in the order of Array.prototype.sort without a comparator: the
\* strings compared code unit by code unit.
StringLess(a, b) ==
  \E k \in 1..Len(b) :
    /\ \A j \in 1..(k - 1) : j <= Len(a) /\ a[j] = b[j]
    /\ \/ k > Len(a)
       \/ k <= Len(a) /\ CodeUnit[a[k]] < CodeUnit[b[k]]

\* new Set(values) spread into an array: the first occurrences, in order.
RECURSIVE Unique(_)
Unique(values) ==
  IF values = <<>> THEN <<>>
  ELSE LET front == Unique(SubSeq(values, 1, Len(values) - 1))
           v == values[Len(values)]
       IN IF \E i \in DOMAIN front : front[i] = v THEN front ELSE Append(front, v)

\* Array.prototype.sort() of strings: ascending, equal strings kept in order.
RECURSIVE Sorted(_)
Sorted(values) ==
  IF values = <<>> THEN <<>>
  ELSE LET front == Sorted(SubSeq(values, 1, Len(values) - 1))
           v == values[Len(values)]
           k == Cardinality({ i \in DOMAIN front : ~StringLess(v, front[i]) })
       IN SubSeq(front, 1, k) \o <<v>> \o SubSeq(front, k + 1, Len(front))

\* skills.map((s) => s.language)
Languages(skills) == [i \in DOMAIN skills |-> skills[i].language]

\* The languages sorted without the Set.
GetLanguages_NoSet(skills) == Sorted(Languages(skills))

\* return [...new Set(skills.map((s) => s.language))].sort()
GetLanguages(skills) == Sorted(Unique(Languages(skills)))

\* An empty types list taken as no filter.
FilterSkills_EmptyIsNoFilter(skills, language, types) ==
  SelectSeq(skills,
            LAMBDA sk : /\ sk.language = language
                        /\ \/ ~types.defined
                           \/ types.list = <<>>
                           \/ \E i \in DOMAIN types.list : types.list[i] = sk.type)

\* skills.filter((s) => s.language === language && (!types || types.includes(s.type)))
\* types is undefined (defined = FALSE) or an array, which is truthy also when
\* it is empty.
FilterSkills(skills, language, types) ==
  SelectSeq(skills,
            LAMBDA sk : /\ sk.language = language
                        /\ \/ ~types.defined
                           \/ \E i \in DOMAIN types.list : types.list[i] = sk.type)

\* The inputs: languages, review types, skills, lists of skills, type filters.
LangNames == { <<"e","l","m">>, <<"g","o">>, <<"G","o">>, <<"g","l","e","e","m">> }

TypeNames == {"code", "security"}

ReviewSkills == [language : LangNames, type : TypeNames]

MaxSkills == 3

SkillLists == UNION { [1..n -> ReviewSkills] : n \in 0..MaxSkills }

TypeFilters ==
  { [defined |-> FALSE, list |-> <<>>],
    [defined |-> TRUE, list |-> <<>>],
    [defined |-> TRUE, list |-> <<"code">>],
    [defined |-> TRUE, list |-> <<"security", "code">>] }

SkillsCalls ==
  { Calling("getLanguages", [skills |-> sk]) : sk \in SkillLists }
  \cup { Calling("filterSkills", [skills |-> sk, language |-> l, types |-> ty]) :
           sk \in SkillLists, l \in LangNames, ty \in TypeFilters }

\* A call of getLanguages, of filterSkills, returns.
CallGetLanguages ==
  /\ lib.op = "getLanguages"
  /\ ~lib.returned
  /\ lib' = [lib EXCEPT !.returned = TRUE, !.out = GetLanguages(lib.args.skills)]
  /\ UNCHANGED << lastCiPassed, hasSelfci, vcs, trunkBranch, env, last, ret,
                  setup, changes, sent, prevCi, ghost, tasks, execCount, done >>

CallFilterSkills ==
  /\ lib.op = "filterSkills"
  /\ ~lib.returned
  /\ lib' = [lib EXCEPT !.returned = TRUE,
                        !.out = FilterSkills(lib.args.skills, lib.args.language,
                                             lib.args.types)]
  /\ UNCHANGED << lastCiPassed, hasSelfci, vcs, trunkBranch, env, last, ret,
                  setup, changes, sent, prevCi, ghost, tasks, execCount, done >>

\* A call is made with arguments of the sets above and returns.
InitLib ==
  /\ Loaded({CHOOSE e \in GateEnvs : TRUE})
  /\ lib \in JjCommitCalls \cup SkillsCalls \cup ParseCalls \cup GuardCalls

NextLib ==
  \/ JjCommit
  \/ CallGetLanguages
  \/ CallFilterSkills
  \/ CallParseFindings
  \/ CallGitGuard

\* One call of the command handler or of a library function.
SpecLib == InitLib /\ [][NextLib]_vars

\* ----------------------------------------------------------------- claims

\* The latest step handled the tool_call of a push command.
PushCalled ==
  /\ last.kind = "tool_call"
  /\ last.toolName = "Bash"
  /\ last.command \in {C_jjGitPush, C_gitPush}

\* The latest step handled the tool_result of a file edit or of a
\* history-mutating command.
MutationHandled ==
  /\ last.kind = "tool_result"
  /\ \/ last.toolName \in {"Edit", "Write"}
     \/ last.toolName = "Bash" /\ last.command \in MutatingCommands

\* C1: a push tool_call handled while gating is active (detectSetup returned
\* true) and lastCiPassed is false returns the block decision with the fixed
\* text that tells the operator to run selfci check first.
C1_UnvalidatedPushBlocked ==
  (PushCalled /\ setup.called /\ setup.result /\ ~lastCiPassed)
    => ret = [block |-> TRUE, reason |-> BlockReason]

C1_Witness ==
  /\ PushCalled /\ setup.called /\ setup.result /\ ~lastCiPassed
  /\ ret.block

\* C2: a push allowed while gating is active comes after a
\* successful validation with nothing changing the content of the next push
\* since, by whatever tool or command.
C2_AllowedPushIsValidated ==
  (PushCalled /\ setup.called /\ setup.result /\ ~ret.block)
    => (ghost.okSeen /\ ~ghost.changed)

\* What the handlers do guarantee of an allowed push: it comes after the
\* tool_result of a validation command with exit code 0, with no tool_result
\* that the tracker recognises as a mutation (Edit, Write, or a Bash command
\* matching the jj or git mutating verbs) handled in or after that event.
AllowedPushHasNoRecognisedMutation ==
  (PushCalled /\ setup.called /\ setup.result /\ ~ret.block)
    => (ghost.okSeen /\ ~ghost.reset)

\* C3: lastCiPassed is false right after the tool_result of an Edit, a Write
\* or a history-mutating Bash command is handled, whatever it was before; and
\* a push that follows a validation and then such a mutation is blocked.
C3_MutationResets ==
  /\ MutationHandled => ~lastCiPassed
  /\ (PushCalled /\ setup.called /\ setup.result /\ ghost.okSeen /\ ghost.reset)
       => ret.block

C3_Witness ==
  /\ MutationHandled /\ last.toolName = "Write"
  /\ prevCi /\ ~lastCiPassed

\* C4: lastCiPassed starts false, goes from false to true only in the step
\* that handles the tool_result of the validation command with exit code 0,
\* and stays true across tool results that are neither Edit/Write nor a
\* history-mutating command.
C4_OnlyValidationSets ==
  /\ last.kind = "init" => ~lastCiPassed
  /\ (~prevCi /\ lastCiPassed)
       => /\ last.kind = "tool_result"
          /\ last.toolName = "Bash"
          /\ last.command = C_selfciCheck
          /\ last.details = [defined |-> TRUE, exitCode |-> 0]
  /\ (prevCi /\ last.kind = "tool_result" /\ ~MutationHandled) => lastCiPassed

C4_Witness ==
  /\ prevCi /\ lastCiPassed
  /\ last.kind = "tool_result" /\ last.command = C_jjLog

\* C5: after the tool_result of a run of the validation command, lastCiPassed
\* tells whether that run succeeded: true after exit code 0, false after a
\* non-zero exit code.
C5_LastRunDecides ==
  ( /\ last.kind = "tool_result"
    /\ last.toolName = "Bash"
    /\ last.command = C_selfciCheck
    /\ last.details.defined )
    => (lastCiPassed <=> last.details.exitCode = 0)

\* C6: a push tool_call handled while gating is active and lastCiPassed is
\* true returns no block decision.
C6_ValidatedPushAllowed ==
  (PushCalled /\ setup.called /\ setup.result /\ lastCiPassed) => ret = NoBlock

C6_Witness ==
  /\ PushCalled /\ setup.called /\ setup.result /\ lastCiPassed
  /\ ~ret.block

\* C7: a push tool_call handled while gating is inactive (no marker, no VCS
\* or no trunk ref resolved) returns no block decision, whatever lastCiPassed.
C7_InactiveAllows ==
  (PushCalled /\ (hasSelfci # "true" \/ vcs = "null" \/ trunkBranch = "null"))
    => ret = NoBlock

C7_Witness ==
  /\ PushCalled /\ ~lastCiPassed
  /\ hasSelfci = "true" /\ vcs = "git" /\ trunkBranch = "null"
  /\ ~ret.block

\* C8: after a setup resolution that found the marker but no VCS or no trunk
\* ref, every later detectSetup call returns false and issues no probe.
C8_FailedSetupNeverRetried ==
  [][ ( /\ hasSelfci = "true"
        /\ vcs = "null" \/ trunkBranch = "null"
        /\ setup'.called )
      => (~setup'.result /\ setup'.execs = <<>>) ]_vars

\* C9: a marker probe that finds no marker sets hasSelfci to false, and from
\* then on hasSelfci stays false and every detectSetup call returns false
\* without issuing any probe, whatever the working directory has become.
C9_AbsentMarkerDisables ==
  /\ [](( /\ setup.called
          /\ Len(setup.execs) > 0
          /\ setup.execs[1] = P_marker
          /\ ~env.marker ) => hasSelfci = "false")
  /\ [][ hasSelfci = "false"
         => /\ hasSelfci' = "false"
            /\ setup'.called => (~setup'.result /\ setup'.execs = <<>>) ]_vars

C9_Witness ==
  /\ hasSelfci = "false" /\ env.marker
  /\ PushCalled /\ setup.called /\ setup.execs = <<>> /\ ~setup.result
  /\ ~lastCiPassed /\ ~ret.block

\* C10: detectSetup returns true only with all three cached fields resolved:
\* hasSelfci true, vcs jj or git, trunkBranch one of main, master, trunk.
C10_ActiveMeansResolved ==
  (setup.called /\ setup.result)
    => /\ hasSelfci = "true"
       /\ vcs \in {"jj", "git"}
       /\ trunkBranch \in {"main", "master", "trunk"}

C10_Witness ==
  /\ setup.called /\ setup.result
  /\ hasSelfci = "true" /\ vcs = "jj" /\ trunkBranch = "master"

\* The latest step handled an agent_end event.
TurnEnded == last.kind = "agent_end"

\* The cached setup fields are all resolved.
GatingActive == hasSelfci = "true" /\ vcs # "null" /\ trunkBranch # "null"

\* C11: at agent_end a message is sent exactly when gating is active,
\* lastCiPassed is false and hasChanges reports working-copy changes or at
\* least one commit ahead of trunk, and then exactly one; with lastCiPassed
\* true the handler calls nothing, with gating inactive it makes no
\* hasChanges query and sends nothing.
C11_AdvisoryExactlyWhenDue ==
  TurnEnded =>
    /\ Len(sent) <= 1
    /\ Len(sent) = 1
         <=> /\ ~lastCiPassed
             /\ GatingActive
             /\ changes.called
             /\ changes.working \/ changes.commits > 0
    /\ lastCiPassed => (~setup.called /\ ~changes.called /\ sent = <<>>)
    /\ (~lastCiPassed /\ ~GatingActive) => (~changes.called /\ sent = <<>>)
    /\ (~lastCiPassed /\ GatingActive) => changes.called

C11_Witness ==
  /\ TurnEnded /\ ~lastCiPassed /\ GatingActive
  /\ changes.called /\ ~changes.working /\ changes.commits = 2
  /\ Len(sent) = 1

\* C12: at agent_end with gating active and lastCiPassed false, when the
\* status query reports no change and the ahead-of-trunk query reports none
\* (jj: no changeset listed; git: count 0, or nothing printed), no message
\* is sent.
C12_NoChangesNoAdvisory ==
  ( /\ TurnEnded /\ ~lastCiPassed /\ GatingActive
    /\ changes.status = [code |-> 0, stdout |-> <<>>]
    /\ \/ changes.log = [code |-> 0, stdout |-> <<>>]
       \/ vcs = "git" /\ changes.log = [code |-> 0, stdout |-> <<G_zero>>] )
    => sent = <<>>

C12_Witness ==
  /\ TurnEnded /\ ~lastCiPassed /\ GatingActive /\ changes.called
  /\ vcs = "jj"
  /\ changes.status = [code |-> 0, stdout |-> <<>>]
  /\ changes.log = [code |-> 0, stdout |-> <<>>]
  /\ sent = <<>>

\* C13: a reminder is handed to pi.sendMessage with deliverAs "followUp" and
\* triggerTurn true, one agent_end sends at most one of them (so it asks for
\* at most one further turn), and the handler that sends it returns no block
\* decision.
C13_AdvisoryIsOneFollowUp ==
  /\ Len(sent) <= 1
  /\ \A i \in DOMAIN sent :
       /\ sent[i].deliverAs = "followUp"
       /\ sent[i].triggerTurn = TRUE
       /\ sent[i].customType = "ci-guard"
       /\ sent[i].display = TRUE
  /\ sent # <<>> => (TurnEnded /\ ret = NoBlock)

C13_Witness ==
  /\ TurnEnded /\ Len(sent) = 1 /\ ret = NoBlock
  /\ sent[1].deliverAs = "followUp" /\ sent[1].triggerTurn
  /\ changes.working /\ changes.commits = 0

\* The text expected from the two results of hasChanges and the trunk name.
T_working == "uncommitted changes in the working copy"

T_ahead == ToString(changes.commits) \o " commit(s) ahead of " \o trunkBranch

T_expected ==
  "Reminder: there are "
  \o (IF changes.working /\ changes.commits > 0
        THEN T_working \o " and " \o T_ahead
        ELSE IF changes.working THEN T_working ELSE T_ahead)
  \o ". Run 'selfci check' to validate before finishing."

\* C14: the text of a reminder names the working-copy changes iff working is
\* true and "N commit(s) ahead of <trunk>" with the count and the resolved
\* trunk iff commits > 0, both joined by " and "; with git, trunk main, a clean
\* status and a count of 1 the text is "Reminder: there are 1 commit(s) ahead
\* of main. ...".
C14_TextNamesWhatHolds ==
  (TurnEnded /\ sent # <<>>) =>
    /\ sent[1].content = T_expected
    /\ ( /\ vcs = "git" /\ trunkBranch = "main"
         /\ changes.status = [code |-> 0, stdout |-> <<>>]
         /\ changes.log = [code |-> 0, stdout |-> <<G_one>>] )
       => sent[1].content
            = "Reminder: there are 1 commit(s) ahead of main. Run 'selfci check' to validate before finishing."

C14_Witness ==
  /\ TurnEnded /\ sent # <<>>
  /\ vcs = "git" /\ trunkBranch = "main"
  /\ ~changes.working /\ changes.commits = 1
  /\ sent[1].content
       = "Reminder: there are 1 commit(s) ahead of main. Run 'selfci check' to validate before finishing."

\* The latest call of detectSetup made the probe p; its place in the call's
\* sequence of pi.exec calls.
Probed(p) == setup.called /\ \E i \in DOMAIN setup.execs : setup.execs[i] = p

ProbeIndex(p) == CHOOSE i \in DOMAIN setup.execs : setup.execs[i] = p

\* C15: a call of detectSetup that resolves the VCS probes .jj first and .git
\* only after the .jj probe failed: with .jj present (with or without .git)
\* vcs is jj and .git is not probed; vcs is git only with .jj absent and .git
\* present; with neither it stays unresolved.
C15_JjProbedBeforeGit ==
  /\ Probed(P_dotGit) =>
       /\ Probed(P_dotJj)
       /\ ProbeIndex(P_dotJj) < ProbeIndex(P_dotGit)
       /\ ~env.dotJj
  /\ Probed(P_dotJj) =>
       /\ env.dotJj => (vcs = "jj" /\ ~Probed(P_dotGit))
       /\ (~env.dotJj /\ env.dotGit) => (vcs = "git" /\ Probed(P_dotGit))
       /\ (~env.dotJj /\ ~env.dotGit) => (vcs = "null" /\ Probed(P_dotGit))

C15_Witness ==
  /\ Probed(P_dotJj) /\ env.dotJj /\ env.dotGit
  /\ vcs = "jj" /\ ~Probed(P_dotGit)

\* The latest call of detectSetup queried the trunk names.
TrunkProbed == Probed(P_bookmarks) \/ Probed(P_revParse.main)

\* The name n is a bookmark of the listing of jj (a listing that failed lists
\* nothing), respectively a ref that git resolves.
BookmarkLines == [main |-> L_main, master |-> L_master, trunk |-> L_trunk]

NameExists(n) ==
  IF vcs = "jj"
    THEN /\ env.bookmarks.code = 0
         /\ \E l \in DOMAIN env.bookmarks.stdout :
              env.bookmarks.stdout[l] = BookmarkLines[n]
    ELSE n \in env.gitRefs

FirstExisting ==
  IF NameExists("main") THEN "main"
  ELSE IF NameExists("master") THEN "master"
  ELSE IF NameExists("trunk") THEN "trunk"
  ELSE "null"

\* C16: a call of detectSetup that queries the trunk, for jj and for git, sets
\* trunkBranch to the first of main, master, trunk that exists (the earliest
\* of the list when several exist, whatever the order of the listing); when
\* none exists trunkBranch stays unresolved and the call returns false.
C16_FirstExistingTrunk ==
  TrunkProbed =>
    /\ vcs \in {"jj", "git"}
    /\ Probed(P_bookmarks) <=> vcs = "jj"
    /\ trunkBranch = FirstExisting
    /\ setup.result <=> FirstExisting # "null"
    /\ FirstExisting = "null" => ~GatingActive

C16_Witness ==
  /\ TrunkProbed /\ vcs = "jj"
  /\ env.bookmarks = [code |-> 0, stdout |-> <<L_trunk, L_master>>]
  /\ trunkBranch = "master" /\ setup.result

\* The two commands of the sessions that are pushes.
PushCommands == {C_jjGitPush, C_gitPush}

\* The event ev is not a Bash call of a push command.
NotAPush(ev) == ev.toolName # "Bash" \/ ev.command \notin PushCommands

\* C17: handling a tool_call that is not a Bash call of a push command
\* returns no block decision, makes no setup probe and leaves lastCiPassed,
\* hasSelfci, vcs and trunkBranch as they were.
C17_NonPushCallUntouched ==
  [][ (last'.kind = "tool_call" /\ NotAPush(last'))
        => /\ ret' = NoBlock
           /\ setup' = NotCalled
           /\ UNCHANGED << lastCiPassed, hasSelfci, vcs, trunkBranch >> ]_vars

C17_Witness ==
  /\ last.kind = "tool_call" /\ last.toolName = "Bash"
  /\ last.command = C_gitCommit
  /\ hasSelfci = "null" /\ env.marker /\ ~lastCiPassed
  /\ ret = NoBlock /\ ~setup.called

\* C18: lastCiPassed goes from false to true only on the result of a selfci
\* check that exited 0 and from true to false only on the result of an Edit,
\* a Write or a Bash command with a mutation verb; a tool_call (blocked or
\* allowed), the result of a push, an agent_end and the result of a Read or of
\* jj log leave it as it was.
C18_NoOtherTransitions ==
  /\ last.kind \in {"tool_call", "agent_end"} => lastCiPassed = prevCi
  /\ (last.kind = "tool_result" /\ last.command \in PushCommands)
       => lastCiPassed = prevCi
  /\ (last.kind = "tool_result" /\ (last.toolName = "Read" \/ last.command = C_jjLog))
       => lastCiPassed = prevCi
  /\ (~prevCi /\ lastCiPassed)
       => /\ last.kind = "tool_result" /\ last.toolName = "Bash"
          /\ last.command = C_selfciCheck
          /\ last.details = [defined |-> TRUE, exitCode |-> 0]
  /\ (prevCi /\ ~lastCiPassed)
       => /\ last.kind = "tool_result"
          /\ \/ last.toolName \in {"Edit", "Write"}
             \/ last.toolName = "Bash" /\ last.command \in MutatingCommands

C18_Witness ==
  /\ last.kind = "tool_result" /\ last.toolName = "Bash"
  /\ last.command = C_jjGitPush
  /\ prevCi /\ lastCiPassed

\* No probe occurs twice among the pi.exec calls of the latest detectSetup.
NoProbeRepeated ==
  \A i \in DOMAIN setup.execs : \A j \in DOMAIN setup.execs :
    setup.execs[i] = setup.execs[j] => i = j

\* C19: jj git push matches both push patterns, and its tool_call leads to
\* one call of detectSetup (no probe made twice) and one decision: block iff
\* gating is active and lastCiPassed is false, the decision that git push,
\* which matches one pattern only, gets in the same state.
C19_BothPatternsOneDecision ==
  (last.kind = "tool_call" /\ last.toolName = "Bash"
     /\ last.command \in PushCommands)
    => /\ IsGitPush(last.command)
       /\ IsJjGitPush(last.command) <=> last.command = C_jjGitPush
       /\ setup.called
       /\ NoProbeRepeated
       /\ setup.result <=> GatingActive
       /\ ret = IF GatingActive /\ ~lastCiPassed THEN Block ELSE NoBlock

C19_Witness ==
  /\ last.kind = "tool_call" /\ last.command = C_jjGitPush
  /\ IsJjGitPush(last.command) /\ IsGitPush(last.command)
  /\ setup.called /\ Len(setup.execs) = 3 /\ ~setup.result
  /\ hasSelfci = "true" /\ vcs = "null"
  /\ ret = NoBlock

\* C20: hasChanges makes its two queries once each; a status query that
\* failed gives working = false and an ahead-count query that failed gives
\* commits = 0, for jj and for git; hasChanges is called by agent_end only,
\* never by a step that returns a block decision.
C20_FailedQueryMeansNoChange ==
  /\ changes.called =>
       /\ TurnEnded /\ ret = NoBlock
       /\ vcs \in {"jj", "git"}
       /\ Len(changes.execs) = 2 /\ changes.execs[1] # changes.execs[2]
       /\ changes.status.code # 0 => ~changes.working
       /\ changes.log.code # 0 => changes.commits = 0
  /\ (last.kind = "tool_call" \/ ret = Block) => ~changes.called

C20_Witness ==
  /\ changes.called /\ vcs = "jj"
  /\ changes.status = [code |-> 1, stdout |-> <<S_modified>>]
  /\ changes.log = [code |-> 1, stdout |-> <<G_one>>]
  /\ ~changes.working /\ changes.commits = 0 /\ sent = <<>>

\* C27: the three tool_result handlers run in registration order, so the
\* result of a Bash command that matches the validation pattern with exit
\* code 0 and a mutation verb (selfci check && git commit) leaves
\* lastCiPassed false, whatever it was before.
C27_ResetWinsOverSuccess ==
  ( /\ last.kind = "tool_result" /\ last.toolName = "Bash"
    /\ last.command = C_checkThenCommit )
    => /\ IsValidation(last.command) /\ IsGitMutation(last.command)
       /\ ~lastCiPassed

C27_Witness ==
  /\ last.kind = "tool_result" /\ last.toolName = "Bash"
  /\ last.command = C_checkThenCommit
  /\ last.details = [defined |-> TRUE, exitCode |-> 0]
  /\ prevCi /\ ~lastCiPassed

\* A resolution of the latest detectSetup call got nothing but non-zero exit
\* codes from its probes.
MarkerProbeFailed == Probed(P_marker) /\ ~env.marker

VcsProbesFailed == Probed(P_dotJj) /\ ~env.dotJj /\ ~env.dotGit

TrunkProbesFailed ==
  \/ Probed(P_bookmarks) /\ env.bookmarks.code # 0
  \/ Probed(P_revParse.main) /\ env.gitRefs = {}

\* C21: a setup probe that exits non-zero is taken as "not found": the field
\* it resolves becomes false, respectively stays null, detectSetup returns
\* false, and the handler that called it returns no block decision, makes no
\* hasChanges query and sends no message.
C21_FailedProbeDoesNothing ==
  setup.called =>
    /\ setup.result \in BOOLEAN
    /\ MarkerProbeFailed => hasSelfci = "false"
    /\ VcsProbesFailed => vcs = "null"
    /\ TrunkProbesFailed => trunkBranch = "null"
    /\ (MarkerProbeFailed \/ VcsProbesFailed \/ TrunkProbesFailed)
         => /\ ~setup.result
            /\ ret = NoBlock
            /\ ~changes.called
            /\ sent = <<>>

C21_Witness ==
  /\ PushCalled /\ ~lastCiPassed
  /\ vcs = "git" /\ env.gitRefs = {}
  /\ Probed(P_revParse.trunk) /\ TrunkProbesFailed
  /\ ~setup.result /\ ret = NoBlock

\* C22: when handlers may be entered while others are suspended at an
\* await, each of the marker, VCS and trunk resolutions issues its probe at
\* most once in a session.
C22_ResolvedAtMostOnce ==
  /\ execCount.marker <= 1
  /\ execCount.vcs <= 1
  /\ execCount.trunk <= 1

\* C29: a reminder is sent only while lastCiPassed is false, also when a
\* tool_result is handled while the agent_end handler is suspended in
\* detectSetup or hasChanges.
C29_AdvisoryOnlyWhileUnvalidated ==
  sent # <<>> => ~lastCiPassed

\* The latest step ran a push guard to its end.
PushEnded == last.kind \in {"tool_call", "resume"} /\ done.kind = "push"

\* C30: a push guard that was suspended in detectSetup decides on the value
\* lastCiPassed has when it goes on, not on the value at its entry: with
\* gating active it blocks iff lastCiPassed is false then.
C30_PushDecidesOnCurrentValue ==
  PushEnded =>
    /\ ret = IF GatingActive /\ ~lastCiPassed THEN Block ELSE NoBlock
    /\ (GatingActive /\ done.ciAtEntry /\ ~lastCiPassed) => ret = Block
    /\ (GatingActive /\ ~done.ciAtEntry /\ lastCiPassed) => ret = NoBlock

C30_Witness ==
  /\ PushEnded /\ last.kind = "resume"
  /\ GatingActive
  /\ done.ciAtEntry /\ ~lastCiPassed
  /\ ret = Block

\* C28: the reminder does not loop forever: in a session that from some
\* point on consists only of turns triggered by a reminder in which the agent
\* calls no tool, and of their agent_end events, reminders stop being sent.
C28_ReminderLoopStops ==
  <>[][TriggeredTurn \/ IdleTurnEnd]_vars => <>[](sent = <<>>)

\* The call op has returned.
Returned(op) == lib.op = op /\ lib.returned

\* cwd is the root of a jujutsu repository or below one: the directory or
\* one of its ancestors, "/" included, holds .jj.
InsideJjRepo(cwd, jjDirs) ==
  \E n \in 0..Len(cwd) : SubSeq(cwd, 1, n) \in jjDirs

\* C23: /jj:commit notifies the error "Not in a jujutsu repository" and
\* sends nothing when ctx.cwd is not inside a jujutsu repository; otherwise it
\* sends the one user message /skill:jj-commit and notifies nothing.
C23_JjCommitValidatesRepo ==
  Returned("jj:commit") =>
    IF InsideJjRepo(lib.args.cwd, lib.args.jjDirs)
      THEN /\ lib.out.userMessages = << "/skill:jj-commit" >>
           /\ lib.out.notified = <<>>
      ELSE /\ lib.out.userMessages = <<>>
           /\ lib.out.notified
                = << [message |-> "Not in a jujutsu repository", type |-> "error"] >>

\* The language names of the calls from the smallest to the largest, code
\* unit by code unit: Go, elm, gleam, go.
AscendingNames ==
  << <<"G","o">>, <<"e","l","m">>, <<"g","l","e","e","m">>, <<"g","o">> >>

\* The languages that occur in the skills of the call.
InputLanguages == { lib.args.skills[i].language : i \in DOMAIN lib.args.skills }

\* C25: getLanguages returns every language of the given skills exactly once
\* and nothing else, in ascending order (the order of the code units, which
\* puts Go before elm).
C25_UniqueSortedLanguages ==
  Returned("getLanguages") =>
    /\ { lib.out[i] : i \in DOMAIN lib.out } = InputLanguages
    /\ Len(lib.out) = Cardinality(InputLanguages)
    /\ lib.out = SelectSeq(AscendingNames, LAMBDA l : l \in InputLanguages)

C25_Witness ==
  /\ Returned("getLanguages")
  /\ Len(lib.args.skills) = 3
  /\ lib.args.skills[1].language = <<"g","o">>
  /\ lib.args.skills[2].language = <<"G","o">>
  /\ lib.args.skills[3].language = <<"g","o">>
  /\ lib.out = << <<"G","o">>, <<"g","o">> >>

\* out is the skills of the call at the positions idx, in their order.
KeptInOrder(out, idx) ==
  /\ Len(out) = Cardinality(idx)
  /\ \A i \in DOMAIN out :
       out[i] = lib.args.skills[CHOOSE k \in idx :
                                  Cardinality({ j \in idx : j < k }) = i - 1]

\* The positions of the skills of the language asked for; those whose type
\* is in the filter list.
OfLanguage ==
  { k \in DOMAIN lib.args.skills : lib.args.skills[k].language = lib.args.language }

TypeListed ==
  { k \in DOMAIN lib.args.skills :
      \E i \in DOMAIN lib.args.types.list :
        lib.args.types.list[i] = lib.args.skills[k].type }

\* C26 as stated: filterSkills returns, in input order, the skills of the
\* language whose type is in the filter, and every skill of the language
\* when no filter is supplied, an empty filter list included.
C26_EmptyFilterReturnsAll ==
  Returned("filterSkills") =>
    KeptInOrder(lib.out,
                IF ~lib.args.types.defined \/ lib.args.types.list = <<>>
                  THEN OfLanguage
                  ELSE OfLanguage \cap TypeListed)

\* C26 amended: filterSkills returns, in input order, the skills of the
\* language whose type is in the filter list when a list is passed (so none
\* for an empty list), and every skill of the language when types is
\* undefined.
C26_FilterByLanguageAndTypes ==
  Returned("filterSkills") =>
    KeptInOrder(lib.out,
                IF ~lib.args.types.defined
                  THEN OfLanguage
                  ELSE OfLanguage \cap TypeListed)

C26_Witness ==
  /\ Returned("filterSkills")
  /\ lib.args.types = [defined |-> TRUE, list |-> <<>>]
  /\ OfLanguage # {}
  /\ lib.out = <<>>

\* The lines of the text parsed that are headings with a severity and a
\* title, in order of occurrence.
HeadingLines == { k \in DOMAIN lib.args.lines :
                   lib.args.lines[k] \in {ReviewLine.highA, ReviewLine.lowB} }

NthHeading(i) ==
  CHOOSE k \in HeadingLines : Cardinality({ j \in HeadingLines : j <= k }) = i

\* The lines from the i-th heading up to the next heading or the end.
BlockLines(i) ==
  SubSeq(lib.args.lines, NthHeading(i),
         IF i < Cardinality(HeadingLines) THEN NthHeading(i + 1) - 1
         ELSE Len(lib.args.lines))

HasLine(block, line) == \E k \in DOMAIN block : block[k] = line

\* C24: parseFindings returns exactly one finding per heading line
\* "### [HIGH|MEDIUM|LOW] title" of the text, in order of occurrence, with
\* that heading's severity and title; each finding is what the block from
\* its heading to the next heading (or the end of the text) alone yields, and
\* a block without an Issue or Suggestion line gets "(no description)" or
\* "(no suggestion)".
C24_OneFindingPerHeadingBlock ==
  Returned("parseFindings") =>
    /\ Len(lib.out) = Cardinality(HeadingLines)
    /\ \A i \in DOMAIN lib.out :
         LET heading == lib.args.lines[NthHeading(i)]
             alone == ParseFindings(JoinLines(BlockLines(i)), lib.args.skill)
         IN /\ lib.out[i].severity
                 = (IF heading = ReviewLine.highA THEN "HIGH" ELSE "LOW")
            /\ lib.out[i].title = <<heading[5]>>
            /\ lib.out[i] = alone[1]
            /\ ~HasLine(BlockLines(i), ReviewLine.issue)
                 => lib.out[i].issue = <<"(no description)">>
            /\ ~HasLine(BlockLines(i), ReviewLine.suggestion)
                 => lib.out[i].suggestion = <<"(no suggestion)">>

\* C31: the tool_result of an Edit or Write, or of a Bash command matching a
\* mutating verb, leaves lastCiPassed false whatever the exit code of the
\* result is (0, non-zero or missing); the tool_result of the validation
\* command that matches no mutating verb leaves lastCiPassed true exactly
\* when it was true before or the exit code is present and 0.
C31_ResetIgnoresOutcomeSetNeedsZero ==
  last.kind = "tool_result" =>
    /\ Recognised(last.toolName, last.command) => ~lastCiPassed
    /\ ( /\ last.toolName = "Bash"
         /\ CommandClass[last.command].validation
         /\ ~Recognised(last.toolName, last.command) )
         => lastCiPassed
              = (prevCi \/ (last.details.defined /\ last.details.exitCode = 0))

C31_Witness ==
  /\ last.kind = "tool_result"
  /\ last.toolName = "Bash" /\ last.command = C_gitCommit
  /\ last.details = [defined |-> TRUE, exitCode |-> 1]
  /\ prevCi /\ ~lastCiPassed

\* C32: the step that handles a tool_result runs no probe, leaves hasSelfci,
\* vcs and trunkBranch as they were and gives lastCiPassed the value the three
\* handlers compute from its old value and the event alone, whatever the
\* setup fields hold; the steps that handle a tool_call or an agent_end
\* (detectSetup, hasChanges) leave lastCiPassed as it was; so a push whose
\* detectSetup call resolves the setup (it runs probes and returns true) is
\* allowed when lastCiPassed was already true.
C32_TrackingAndSetupIndependent ==
  [][ /\ last'.kind = "tool_result"
        => /\ hasSelfci' = hasSelfci /\ vcs' = vcs /\ trunkBranch' = trunkBranch
           /\ ~setup'.called /\ setup'.execs = <<>>
           /\ lastCiPassed' = AfterToolResult(lastCiPassed, last'.toolName,
                                              last'.command, last'.details)
      /\ last'.kind \in {"tool_call", "agent_end"} => lastCiPassed' = lastCiPassed
      /\ (PushCalled' /\ setup'.execs # <<>> /\ setup'.result /\ lastCiPassed)
           => ret' = NoBlock
    ]_vars

C32_Witness ==
  /\ PushCalled /\ Probed(P_marker) /\ setup.result
  /\ prevCi /\ lastCiPassed /\ ret = NoBlock

\* C33: from a state in which gating is active (detectSetup has returned
\* true: hasSelfci is true, vcs and trunkBranch are set) no step changes
\* hasSelfci, vcs or trunkBranch, and every detectSetup call returns true
\* without a probe, whatever has been removed from the working directory.
C33_ActiveSetupIsFrozen ==
  [][ GatingActive
        => /\ hasSelfci' = hasSelfci /\ vcs' = vcs /\ trunkBranch' = trunkBranch
           /\ setup'.called => (setup'.result /\ setup'.execs = <<>>)
    ]_vars

\* A push is guarded (and blocked) after the marker file and the metadata
\* directories have been removed.
C33_Witness ==
  /\ PushCalled /\ GatingActive
  /\ ~env.marker /\ ~env.dotJj /\ ~env.dotGit
  /\ setup.called /\ setup.result /\ setup.execs = <<>>
  /\ ret = Block

\* The command holds a git invocation of a verb of the hook that is not the
\* git subcommand of jj: "git", whitespace and the verb, with no "jj" and
\* whitespace right before.
PlainGitMutation(command) ==
  \E i \in DOMAIN command :
    /\ GrepAt(command, i, W_git, GuardVerbs)
    /\ ~\E k \in 1..(i - 1) :
          /\ GrepAt(command, k, W_jj, {W_git})
          /\ \A m \in (k + Len(W_jj))..(i - 1) : IsWs(command[m])

\* C34: run with cwd inside a jujutsu repository, the hook exits 2 with the
\* block decision on every command that holds a plain git invocation of one
\* of its verbs, and exits 0 on a command whose git invocations are all jj
\* git subcommands; run with cwd empty or outside every jujutsu repository it
\* exits 0 on every command.
C34_GitGuardBlocksPlainGit ==
  Returned("git-guard") =>
    LET inside == lib.args.hasCwd /\ InsideJjRepo(lib.args.cwd, lib.args.jjDirs)
    IN /\ (inside /\ PlainGitMutation(lib.args.command))
            => lib.out = [exit |-> 2, decision |-> "block"]
       /\ (inside /\ ~PlainGitMutation(lib.args.command))
            => lib.out.exit = 0
       /\ ~inside => lib.out.exit = 0

====
